---- MODULE Spec2Model ----
(***************************************************************************)
(* The pipeline orchestrator of EnjinScraper (index.ts, main): the two     *)
(* authentication calls, the site-ID lookup, and the ten module blocks,    *)
(* each gated by the completion ledger (table "scrapers"), the disable     *)
(* flags and, for forums, wikis and news, the module-ID index.  A          *)
(* behaviour is a sequence of runs of main over one persistent store.      *)
(***************************************************************************)
EXTENDS Naturals, Sequences, FiniteSets, Bags

VARIABLES
    pc,          \* position of main: idle, authAPI, authSite, siteID, openDB,
                 \* module, scraping, insert, delete, exit, done, failed, interrupted
    cur,         \* the module block main is in ("none" outside the blocks)
    config,      \* the value getConfig() returned to this run
    sessionID,   \* main's const sessionID: none | config | api
    siteAuth,    \* main's const siteAuth: none | config | site
    siteID,      \* main's const siteID: none | resolved
    ledger,      \* table "scrapers": a bag of rows <<module, scraped>>
    moduleIDs,   \* the module-ID index of the store, per category
    files,       \* the recovery files present under ./target/recovery
    run,         \* number of runs of main started so far
    startLedger, \* the ledger as it was when this run started
    startFiles,  \* the recovery files present when this run started
    invoked,     \* the scraper calls of this run, in order: [fn, module, ids]
    skipped,     \* per module, the skip message this run logged ("none" if none)
    failure,     \* the collaborator call that threw in this run, and the ledger then
    retry,       \* the module whose scraper failed in the previous run, when this
                 \* run is a restart with the same config ("none" otherwise)
    everInvoked, \* modules whose scraper was invoked in an earlier run
    lastInsert,  \* the last insertRow on the ledger: [name, existed]
    signalled    \* this run has sent itself SIGINT

vars == <<pc, cur, config, sessionID, siteAuth, siteID, ledger, moduleIDs, files,
          run, startLedger, startFiles, invoked, skipped, failure, retry,
          everInvoked, lastInsert, signalled>>

----------------------------------------------------------------------------
(* Bounds. *)

MaxRuns == 2        \* runs of main in one behaviour
MaxOptions == 1     \* settings a config changes from the default config
MaxID == 1          \* a category of the site has the ids 1..n, n <= MaxID

----------------------------------------------------------------------------
(* The fixed pipeline. *)

\* As Order, with the comments block placed before the applications block.
OrderSwapped ==
    <<"site_data", "forums", "galleries", "wikis", "news",
      "comments", "applications", "tickets", "users", "files">>

Order == <<"site_data", "forums", "galleries", "wikis", "news",
           "applications", "comments", "tickets", "users", "files">>

Modules == {Order[i] : i \in 1..Len(Order)}

IndexOf(m) == CHOOSE i \in 1..Len(Order) : Order[i] = m

Categories == {"forum", "wiki", "news"}

ListModules == {"forums", "wikis", "news"}

CategoryOf(m) ==
    CASE m = "forums" -> "forum"
      [] m = "wikis" -> "wiki"
      [] m = "news" -> "news"

\* The keys of config.disabledModules that main reads; site data has none.
DisableFlags == Modules \ {"site_data"}

\* The first scraper each block awaits.
ScraperOf(m) ==
    CASE m = "site_data" -> "getSiteData"
      [] m = "forums" -> "getForums"
      [] m = "galleries" -> "getGalleries"
      [] m = "wikis" -> "getWikis"
      [] m = "news" -> "getNews"
      [] m = "applications" -> "getApplicationResponses"
      [] m = "comments" -> "getComments"
      [] m = "tickets" -> "getAllTickets"
      [] m = "users" -> "getUsers"
      [] m = "files" -> "getFiles"

\* As RecoveryFiles, with one path of the applications block left out.
RecoveryFilesShort(m) ==
    CASE m = "forums" -> {"forum_progress.json"}
      [] m = "wikis" -> {"wiki_progress.json"}
      [] m = "applications" -> {"remaining_applications.json"}
      [] m = "comments" -> {"comments.json"}
      [] m = "tickets" -> {"module_tickets.json"}
      [] m = "users" -> {"user_tags.json", "user_ips.json"}
      [] m = "files" -> {"s3_file_progress.json", "wiki_file_progress.json"}
      [] OTHER -> {}

\* The paths each block hands to deleteFiles after its insertRow.
RecoveryFiles(m) ==
    CASE m = "forums" -> {"forum_progress.json"}
      [] m = "wikis" -> {"wiki_progress.json"}
      [] m = "applications" -> {"remaining_applications.json", "application_ids.json"}
      [] m = "comments" -> {"comments.json"}
      [] m = "tickets" -> {"module_tickets.json"}
      [] m = "users" -> {"user_tags.json", "user_ips.json"}
      [] m = "files" -> {"s3_file_progress.json", "wiki_file_progress.json"}
      [] OTHER -> {}

\* The checkpoint files a module's scraper keeps while it works.
ScraperFiles(m) ==
    CASE m = "forums" -> {"forum_progress.json"}
      [] m = "wikis" -> {"wiki_progress.json"}
      [] m = "applications" -> {"remaining_applications.json", "application_ids.json"}
      [] m = "comments" -> {"comments.json"}
      [] m = "tickets" -> {"module_tickets.json"}
      [] m = "users" -> {"user_tags.json", "user_ips.json"}
      [] m = "files" -> {"s3_file_progress.json", "wiki_file_progress.json"}
      [] OTHER -> {}

----------------------------------------------------------------------------
(* Inputs: the configs a run can be given and the sites it can meet. *)

IDs == 1..MaxID

IDSets == {1..n : n \in 0..MaxID}

Sites == [Categories -> IDSets]

RECURSIVE SumCard(_, _)
SumCard(f, S) ==
    IF S = {} THEN 0
    ELSE LET c == CHOOSE x \in S : TRUE
         IN Cardinality(f[c]) + SumCard(f, S \ {c})

\* Settings of a config that differ from the default: disable flags set, ids
\* excluded, pre-obtained session values supplied.
Options(c) ==
    Cardinality(c.disabled) + SumCard(c.exclude, Categories)
        + (IF c.sessionID THEN 1 ELSE 0) + (IF c.siteAuth THEN 1 ELSE 0)

Configs ==
    {c \in [disabled : {S \in SUBSET DisableFlags : Cardinality(S) <= MaxOptions},
            exclude : [Categories -> SUBSET IDs],
            sessionID : BOOLEAN, siteAuth : BOOLEAN] : Options(c) <= MaxOptions}

\* No module disabled, nothing excluded, no pre-obtained session values.
DefaultConfig ==
    [disabled |-> {}, exclude |-> [c \in Categories |-> {}],
     sessionID |-> FALSE, siteAuth |-> FALSE]

----------------------------------------------------------------------------
(* The store and the filesystem. *)

\* isModuleScraped(database, name): a row of that name exists.
isModuleScraped(l, name) == \E r \in BagToSet(l) : r[1] = name

\* As insertRow, on a table without a key: the row is added.
insertRowAppend(l, name, value) == l (+) SetToBag({<<name, value>>})

\* insertRow(database, 'scrapers', name, value) on a table keyed by the name:
\* the row replaces any row of the same name.
insertRow(l, name, value) ==
    LET others == {r \in BagToSet(l) : r[1] # name}
    IN [r \in others |-> l[r]] (+) SetToBag({<<name, value>>})

\* queryModuleIDs(database, category).
queryModuleIDs(db, category) == db[category]

\* deleteFiles(paths): removes the paths that exist.
deleteFiles(fs, paths) == fs \ paths

\* Number of rows the ledger holds for a name.
RowsOf(l, name) == CopiesIn(<<name, TRUE>>, l) + CopiesIn(<<name, FALSE>>, l)

LedgerNames(l) == {r[1] : r \in BagToSet(l)}

NoFailure == [call |-> "none", module |-> "none", ledger |-> EmptyBag]

NoInsert == [name |-> "none", existed |-> FALSE]

NoSkips == [m \in Modules |-> "none"]

Running ==
    {"authAPI", "authSite", "siteID", "openDB", "module", "scraping",
     "insert", "delete", "exit"}

Stopped == {"idle", "done", "failed", "interrupted"}

----------------------------------------------------------------------------
(* Init: a fresh store, no run of main started. *)

Init ==
    /\ pc = "idle"
    /\ cur = "none"
    /\ config = DefaultConfig
    /\ sessionID = "none"
    /\ siteAuth = "none"
    /\ siteID = "none"
    /\ ledger = EmptyBag
    /\ moduleIDs = [c \in Categories |-> {}]
    /\ files = {}
    /\ run = 0
    /\ startLedger = EmptyBag
    /\ startFiles = {}
    /\ invoked = <<>>
    /\ skipped = NoSkips
    /\ failure = NoFailure
    /\ retry = "none"
    /\ everInvoked = {}
    /\ lastInsert = NoInsert
    /\ signalled = FALSE

----------------------------------------------------------------------------
(* main, lines 20-45: start, the two logins, the site ID, the database. *)

InvokedModules == {invoked[i].module : i \in 1..Len(invoked)}

\* A run of main starts (the first, or a restart over the same store) and
\* getConfig() resolves the config.
Start(c) ==
    /\ pc \in Stopped
    /\ run < MaxRuns
    /\ run' = run + 1
    /\ config' = c
    /\ pc' = "authAPI"
    /\ cur' = "none"
    /\ sessionID' = "none"
    /\ siteAuth' = "none"
    /\ siteID' = "none"
    /\ startLedger' = ledger
    /\ startFiles' = files
    /\ invoked' = <<>>
    /\ skipped' = NoSkips
    /\ failure' = NoFailure
    /\ retry' = IF pc = "failed" /\ c = config THEN failure.module ELSE "none"
    /\ everInvoked' = everInvoked \cup InvokedModules
    /\ signalled' = FALSE
    /\ UNCHANGED <<ledger, moduleIDs, files, lastInsert>>

\* A collaborator call of main throws: the rejection of main() is not handled
\* and nothing of main runs after it.
Throw(call, module) ==
    /\ pc' = "failed"
    /\ failure' = [call |-> call, module |-> module, ledger |-> ledger]

\* As AuthenticateAPI, with the login made whatever the config supplies.
AuthenticateAPIAlways ==
    /\ pc = "authAPI"
    /\ \/ /\ sessionID' = "api"
          /\ pc' = "authSite"
          /\ UNCHANGED failure
       \/ /\ Throw("authenticateAPI", "none")
          /\ UNCHANGED sessionID
    /\ UNCHANGED <<cur, config, siteAuth, siteID, ledger, moduleIDs, files, run,
                   startLedger, startFiles, invoked, skipped, retry, everInvoked,
                   lastInsert, signalled>>

\* Line 31.
AuthenticateAPI ==
    /\ pc = "authAPI"
    /\ \/ /\ config.sessionID
          /\ sessionID' = "config"
          /\ pc' = "authSite"
          /\ UNCHANGED failure
       \/ /\ ~config.sessionID
          /\ sessionID' = "api"
          /\ pc' = "authSite"
          /\ UNCHANGED failure
       \/ /\ ~config.sessionID
          /\ Throw("authenticateAPI", "none")
          /\ UNCHANGED sessionID
    /\ UNCHANGED <<cur, config, siteAuth, siteID, ledger, moduleIDs, files, run,
                   startLedger, startFiles, invoked, skipped, retry, everInvoked, lastInsert,
                   signalled>>

\* Line 34.
AuthenticateSite ==
    /\ pc = "authSite"
    /\ \/ /\ config.siteAuth
          /\ siteAuth' = "config"
          /\ pc' = "siteID"
          /\ UNCHANGED failure
       \/ /\ ~config.siteAuth
          /\ siteAuth' = "site"
          /\ pc' = "siteID"
          /\ UNCHANGED failure
       \/ /\ ~config.siteAuth
          /\ Throw("authenticateSite", "none")
          /\ UNCHANGED siteAuth
    /\ UNCHANGED <<cur, config, sessionID, siteID, ledger, moduleIDs, files, run,
                   startLedger, startFiles, invoked, skipped, retry, everInvoked, lastInsert,
                   signalled>>

\* As GetSiteID, with the error envelope not thrown: main goes on without a
\* site ID.
GetSiteIDCaught ==
    /\ pc = "siteID"
    /\ \/ /\ siteID' = "resolved"
          /\ pc' = "openDB"
          /\ UNCHANGED failure
       \/ /\ failure' = [call |-> "getSiteID", module |-> "none", ledger |-> ledger]
          /\ pc' = "openDB"
          /\ UNCHANGED siteID
    /\ UNCHANGED <<cur, config, sessionID, siteAuth, ledger, moduleIDs, files, run,
                   startLedger, startFiles, invoked, skipped, retry, everInvoked,
                   lastInsert, signalled>>

\* Line 37; getSiteID throws on an error envelope or a transport failure.
GetSiteID ==
    /\ pc = "siteID"
    /\ \/ /\ siteID' = "resolved"
          /\ pc' = "openDB"
          /\ UNCHANGED failure
       \/ /\ Throw("getSiteID", "none")
          /\ UNCHANGED siteID
    /\ UNCHANGED <<cur, config, sessionID, siteAuth, ledger, moduleIDs, files, run,
                   startLedger, startFiles, invoked, skipped, retry, everInvoked, lastInsert,
                   signalled>>

\* Lines 41-45: the recovery directory and the tables are created if absent;
\* what the store already holds stays.
OpenDatabase ==
    /\ pc = "openDB"
    /\ pc' = "module"
    /\ cur' = Order[1]
    /\ UNCHANGED <<config, sessionID, siteAuth, siteID, ledger, moduleIDs, files,
                   run, startLedger, startFiles, invoked, skipped, failure, retry, everInvoked,
                   lastInsert, signalled>>

----------------------------------------------------------------------------
(* main, lines 47-182: the ten module blocks. *)

Disabled(m) == m \in config.disabled

\* Array.prototype.filter with the exclude predicate: a new array.
Filter(ids, exclude) == {id \in ids : id \notin exclude}

\* Lines 57, 86, 103: the statement evaluates the filter and drops its value,
\* so the block's array is afterwards what queryModuleIDs returned.
ExcludeStatement(ids, exclude) ==
    LET dropped == Filter(ids, exclude)
    IN ids

\* As SiteDataDecision, with the test of line 48 inverted.
SiteDataDecisionInverted ==
    IF isModuleScraped(ledger, "site_data") THEN "run" ELSE "scraped"

\* Lines 48-53: site data has no disable flag and needs no ids.
SiteDataDecision ==
    IF isModuleScraped(ledger, "site_data") THEN "scraped" ELSE "run"

\* Lines 58-64, 87-93, 104-110: the chain of forums, wikis and news.
ListDecision(m, ids) ==
    IF Cardinality(ids) = 0 THEN "noids"
    ELSE IF Disabled(m) THEN "disabled"
    ELSE IF isModuleScraped(ledger, m) THEN "scraped"
    ELSE "run"

\* As PlainDecision, without the ledger test.
PlainDecisionNoLedger(m) ==
    IF Disabled(m) THEN "disabled" ELSE "run"

\* As PlainDecision, without the disable-flag test.
PlainDecisionNoFlag(m) ==
    IF isModuleScraped(ledger, m) THEN "scraped" ELSE "run"

\* Lines 73-77, 118-122, 133-137, 146-150, 159-163, 172-176: the chain of the
\* blocks without an id list.
PlainDecision(m) ==
    IF Disabled(m) THEN "disabled"
    ELSE IF isModuleScraped(ledger, m) THEN "scraped"
    ELSE "run"

\* Control leaves block m for the next block, or for line 184 after the last.
Leave(m) ==
    IF IndexOf(m) = Len(Order)
    THEN pc' = "exit" /\ cur' = "none"
    ELSE pc' = "module" /\ cur' = Order[IndexOf(m) + 1]

\* As Block, with the recovery files also deleted when the module is skipped
\* as already scraped.
BlockCleansSkipped(m, decision, ids) ==
    /\ pc = "module"
    /\ cur = m
    /\ IF decision = "run"
       THEN /\ pc' = "scraping"
            /\ cur' = m
            /\ invoked' = Append(invoked, [fn |-> ScraperOf(m), module |-> m, ids |-> ids])
            /\ files' = files \cup ScraperFiles(m)
            /\ UNCHANGED skipped
       ELSE /\ Leave(m)
            /\ skipped' = [skipped EXCEPT ![m] = decision]
            /\ files' = IF decision = "scraped"
                        THEN deleteFiles(files, RecoveryFiles(m))
                        ELSE files
            /\ UNCHANGED invoked
    /\ UNCHANGED <<config, sessionID, siteAuth, siteID, ledger, moduleIDs, run,
                   startLedger, startFiles, failure, retry, everInvoked, lastInsert,
                   signalled>>

\* The branch of block m that the decision selects: a skip message, or the
\* call of the block's scraper, which keeps its checkpoint in its recovery
\* files while it works.
Block(m, decision, ids) ==
    /\ pc = "module"
    /\ cur = m
    /\ IF decision = "run"
       THEN /\ pc' = "scraping"
            /\ cur' = m
            /\ invoked' = Append(invoked, [fn |-> ScraperOf(m), module |-> m, ids |-> ids])
            /\ files' = files \cup ScraperFiles(m)
            /\ UNCHANGED skipped
       ELSE /\ Leave(m)
            /\ skipped' = [skipped EXCEPT ![m] = decision]
            /\ UNCHANGED <<invoked, files>>
    /\ UNCHANGED <<config, sessionID, siteAuth, siteID, ledger, moduleIDs, run,
                   startLedger, startFiles, failure, retry, everInvoked, lastInsert, signalled>>

\* Lines 56-64, 85-93, 102-110: the block of a module with an id list.
ListBlock(m) ==
    LET queried == queryModuleIDs(moduleIDs, CategoryOf(m))
        ids == ExcludeStatement(queried, config.exclude[CategoryOf(m)])
    IN Block(m, ListDecision(m, ids), ids)

SiteData == Block("site_data", SiteDataDecision, {})

Forums == ListBlock("forums")

Galleries == Block("galleries", PlainDecision("galleries"), {})

Wikis == ListBlock("wikis")

News == ListBlock("news")

Applications == Block("applications", PlainDecision("applications"), {})

Comments == Block("comments", PlainDecision("comments"), {})

Tickets == Block("tickets", PlainDecision("tickets"), {})

Users == Block("users", PlainDecision("users"), {})

Files == Block("files", PlainDecision("files"), {})

LastCall == invoked[Len(invoked)]

\* As ScraperReturns, with the applications row written between the two
\* scraper calls of the block.
ScraperReturnsMarked ==
    /\ pc = "scraping"
    /\ IF LastCall.fn = "getApplicationResponses"
       THEN /\ invoked' = Append(invoked, [fn |-> "getApplications", module |-> cur, ids |-> {}])
            /\ ledger' = insertRow(ledger, cur, TRUE)
            /\ UNCHANGED <<pc, moduleIDs>>
       ELSE /\ pc' = "insert"
            /\ IF LastCall.fn = "getSiteData"
               THEN \E site \in Sites : moduleIDs' = site
               ELSE UNCHANGED moduleIDs
            /\ UNCHANGED <<invoked, ledger>>
    /\ UNCHANGED <<cur, config, sessionID, siteAuth, siteID, files, run,
                   startLedger, startFiles, skipped, failure, retry, everInvoked,
                   lastInsert, signalled>>

\* The awaited scraper resolves.  getSiteData has filled the module-ID index
\* from the site; getApplicationResponses is followed by getApplications
\* (line 126) before the block goes on to its insertRow.
ScraperReturns ==
    /\ pc = "scraping"
    /\ IF LastCall.fn = "getApplicationResponses"
       THEN /\ invoked' = Append(invoked, [fn |-> "getApplications", module |-> cur, ids |-> {}])
            /\ UNCHANGED <<pc, moduleIDs>>
       ELSE /\ pc' = "insert"
            /\ IF LastCall.fn = "getSiteData"
               THEN \E site \in Sites : moduleIDs' = site
               ELSE UNCHANGED moduleIDs
            /\ UNCHANGED invoked
    /\ UNCHANGED <<cur, config, sessionID, siteAuth, siteID, ledger, files, run,
                   startLedger, startFiles, skipped, failure, retry, everInvoked, lastInsert,
                   signalled>>

\* As ScraperFails, with the rejection caught and the pipeline going on.
ScraperFailsCaught ==
    /\ pc = "scraping"
    /\ failure' = [call |-> LastCall.fn, module |-> cur, ledger |-> ledger]
    /\ Leave(cur)
    /\ UNCHANGED <<config, sessionID, siteAuth, siteID, ledger, moduleIDs,
                   files, run, startLedger, startFiles, invoked, skipped, retry, everInvoked,
                   lastInsert, signalled>>

\* As ScraperFails, with the ledger row written before the rejection leaves main.
ScraperFailsMarked ==
    /\ pc = "scraping"
    /\ ledger' = insertRow(ledger, cur, TRUE)
    /\ pc' = "failed"
    /\ failure' = [call |-> LastCall.fn, module |-> cur, ledger |-> ledger']
    /\ UNCHANGED <<cur, config, sessionID, siteAuth, siteID, moduleIDs,
                   files, run, startLedger, startFiles, invoked, skipped, retry, everInvoked,
                   lastInsert, signalled>>

\* As ScraperFails, with the block's recovery files deleted on the way out.
ScraperFailsCleaned ==
    /\ pc = "scraping"
    /\ Throw(LastCall.fn, cur)
    /\ files' = deleteFiles(files, RecoveryFiles(cur))
    /\ UNCHANGED <<cur, config, sessionID, siteAuth, siteID, ledger, moduleIDs,
                   run, startLedger, startFiles, invoked, skipped, retry,
                   everInvoked, lastInsert, signalled>>

\* The awaited scraper rejects.
ScraperFails ==
    /\ pc = "scraping"
    /\ Throw(LastCall.fn, cur)
    /\ UNCHANGED <<cur, config, sessionID, siteAuth, siteID, ledger, moduleIDs,
                   files, run, startLedger, startFiles, invoked, skipped, retry, everInvoked,
                   lastInsert, signalled>>

\* As InsertRow, with false written in place of true.
InsertRowFalse ==
    /\ pc = "insert"
    /\ ledger' = insertRow(ledger, cur, FALSE)
    /\ lastInsert' = [name |-> cur, existed |-> isModuleScraped(ledger, cur)]
    /\ IF RecoveryFiles(cur) = {}
       THEN Leave(cur)
       ELSE pc' = "delete" /\ UNCHANGED cur
    /\ UNCHANGED <<config, sessionID, siteAuth, siteID, moduleIDs, files, run,
                   startLedger, startFiles, invoked, skipped, failure, retry,
                   everInvoked, signalled>>

\* Lines 52, 67, 80, 96, 113, 127, 140, 153, 166, 179: the ledger write.
InsertRow ==
    /\ pc = "insert"
    /\ ledger' = insertRow(ledger, cur, TRUE)
    /\ lastInsert' = [name |-> cur, existed |-> isModuleScraped(ledger, cur)]
    /\ IF RecoveryFiles(cur) = {}
       THEN Leave(cur)
       ELSE pc' = "delete" /\ UNCHANGED cur
    /\ UNCHANGED <<config, sessionID, siteAuth, siteID, moduleIDs, files, run,
                   startLedger, startFiles, invoked, skipped, failure, retry, everInvoked,
                   signalled>>

\* Lines 68, 97, 128, 141, 154, 167, 180: the block's recovery files go.
DeleteFiles ==
    /\ pc = "delete"
    /\ files' = deleteFiles(files, RecoveryFiles(cur))
    /\ Leave(cur)
    /\ UNCHANGED <<config, sessionID, siteAuth, siteID, ledger, moduleIDs, run,
                   startLedger, startFiles, invoked, skipped, failure, retry, everInvoked,
                   lastInsert, signalled>>

\* As Exit, with main returning without the signal.
ExitReturns ==
    /\ pc = "exit"
    /\ pc' = "done"
    /\ UNCHANGED <<cur, config, sessionID, siteAuth, siteID, ledger, moduleIDs,
                   files, run, startLedger, startFiles, invoked, skipped, failure,
                   retry, everInvoked, lastInsert, signalled>>

\* Line 184: main sends its own process SIGINT.
Exit ==
    /\ pc = "exit"
    /\ pc' = "done"
    /\ signalled' = TRUE
    /\ UNCHANGED <<cur, config, sessionID, siteAuth, siteID, ledger, moduleIDs,
                   files, run, startLedger, startFiles, invoked, skipped, failure, retry,
                   everInvoked, lastInsert>>

\* The process is stopped from outside at any point of a run; the store and
\* the files stay as last written.
Interrupt ==
    /\ pc \in Running
    /\ pc' = "interrupted"
    /\ UNCHANGED <<cur, config, sessionID, siteAuth, siteID, ledger, moduleIDs,
                   files, run, startLedger, startFiles, invoked, skipped, failure, retry,
                   everInvoked, lastInsert, signalled>>

Next ==
    \/ \E c \in Configs : Start(c)
    \/ AuthenticateAPI
    \/ AuthenticateSite
    \/ GetSiteID
    \/ OpenDatabase
    \/ SiteData
    \/ Forums
    \/ Galleries
    \/ Wikis
    \/ News
    \/ Applications
    \/ Comments
    \/ Tickets
    \/ Users
    \/ Files
    \/ ScraperReturns
    \/ ScraperFails
    \/ InsertRow
    \/ DeleteFiles
    \/ Exit
    \/ Interrupt

Spec == Init /\ [][Next]_vars

\* The steps of main itself: every step but the start of a run and its
\* interruption from outside.
Proceed ==
    \/ AuthenticateAPI
    \/ AuthenticateSite
    \/ GetSiteID
    \/ OpenDatabase
    \/ SiteData
    \/ Forums
    \/ Galleries
    \/ Wikis
    \/ News
    \/ Applications
    \/ Comments
    \/ Tickets
    \/ Users
    \/ Files
    \/ ScraperReturns
    \/ ScraperFails
    \/ InsertRow
    \/ DeleteFiles
    \/ Exit

\* Every awaited collaborator settles and the event loop then resumes main.
SpecFair == Spec /\ WF_vars(Proceed)

----------------------------------------------------------------------------
(* The ledger write on its own: markComplete applied to any name, any       *)
(* number of times.                                                         *)

MarkComplete(name) ==
    /\ ledger' = insertRow(ledger, name, TRUE)
    /\ lastInsert' = [name |-> name, existed |-> isModuleScraped(ledger, name)]
    /\ UNCHANGED <<pc, cur, config, sessionID, siteAuth, siteID, moduleIDs, files,
                   run, startLedger, startFiles, invoked, skipped, failure, retry, everInvoked,
                   signalled>>

NextLedger == \E name \in Modules : MarkComplete(name)

SpecLedger == Init /\ [][NextLedger]_vars

----------------------------------------------------------------------------
(* Claims. *)

\* Block m has taken its decision in this run.
Decided(m) == skipped[m] # "none" \/ m \in InvokedModules

\* C1: a module the ledger records complete when a run starts has its scraper
\* never invoked during that run, whatever the flags, excludes and id sets.
C1_CompleteAtStartNeverInvoked ==
    \A i \in 1..Len(invoked) : ~isModuleScraped(startLedger, invoked[i].module)

\* C1 witness: a run met a module that was complete when it started, and
\* skipped it as already scraped.
C1_Witness ==
    \E m \in Modules : isModuleScraped(startLedger, m) /\ skipped[m] = "scraped"

\* C2: a module the config disables is never invoked in the run and the run
\* creates no ledger entry for it.
C2_DisabledNeverRunNorMarked ==
    \A m \in config.disabled :
        /\ m \notin InvokedModules
        /\ RowsOf(ledger, m) = RowsOf(startLedger, m)

\* C2 witness: a run finished with a disabled module, skipped as disabled,
\* that has no ledger entry.
C2_Witness ==
    \E m \in config.disabled :
        /\ pc = "done"
        /\ skipped[m] = "disabled"
        /\ ~isModuleScraped(ledger, m)

\* C3: the id set handed to getForums, getWikis or getNews is
\* queryModuleIDs(category) minus the category's exclude set.
C3_HandedIdsAreFiltered ==
    \A i \in 1..Len(invoked) :
        invoked[i].module \in ListModules =>
            LET c == CategoryOf(invoked[i].module)
            IN invoked[i].ids = queryModuleIDs(moduleIDs, c) \ config.exclude[c]

\* C4: when every id of a category is excluded, the owning module is skipped
\* through the "no module IDs" path: not invoked, no ledger write in the run.
C4_AllExcludedSkipsModule ==
    \A m \in ListModules :
        LET c == CategoryOf(m)
        IN (queryModuleIDs(moduleIDs, c) # {}
              /\ queryModuleIDs(moduleIDs, c) \subseteq config.exclude[c]) =>
             /\ m \notin InvokedModules
             /\ RowsOf(ledger, m) = RowsOf(startLedger, m)
             /\ skipped[m] \in {"none", "noids"}

\* C5: the site_data ledger entry exists before the scraper of any other
\* module begins.
C5_SiteDataMarkedFirst ==
    (\E i \in 1..Len(invoked) : invoked[i].module # "site_data") =>
        isModuleScraped(ledger, "site_data")

\* C5 witness: a run scraped the site data and then invoked another scraper.
C5_Witness ==
    /\ Len(invoked) >= 2
    /\ invoked[1].module = "site_data"
    /\ invoked[2].module # "site_data"

\* A first run over the fresh store, with the default config, that reached
\* the end of main.
FreshRunDone == run = 1 /\ config = DefaultConfig /\ pc = "done"

\* C6 as stated: a single run from a fresh store, nothing disabled or
\* excluded, nothing failing, ends with all ten modules complete and no
\* recovery file.
C6_FreshRunCompletesAll ==
    FreshRunDone => LedgerNames(ledger) = Modules /\ files = {}

\* C6 amended: the same, for a site that has at least one forum, one wiki and
\* one news module id.
C6_FreshRunCompletesAllWithIds ==
    (FreshRunDone /\ \A c \in Categories : queryModuleIDs(moduleIDs, c) # {}) =>
        /\ LedgerNames(ledger) = Modules
        /\ \A m \in Modules : RowsOf(ledger, m) = 1
        /\ files = {}

\* C6 witness: such a run, ended.
C6_Witness ==
    /\ FreshRunDone
    /\ \A c \in Categories : queryModuleIDs(moduleIDs, c) # {}
    /\ Len(invoked) = 11

\* C7: a failing scraper ends the run: no ledger entry for its module, no
\* later scraper invoked, no ledger entry changed afterwards.
C7_FailureEndsRun ==
    failure.module # "none" =>
        /\ pc = "failed"
        /\ ledger = failure.ledger
        /\ ~isModuleScraped(ledger, failure.module)
        /\ LastCall.module = failure.module
        /\ LastCall.fn = failure.call

\* C7 witness: a scraper failed after an earlier module of the same run was
\* scraped and marked.
C7_Witness ==
    /\ pc = "failed"
    /\ failure.module # "none"
    /\ \E m \in InvokedModules : m # failure.module /\ isModuleScraped(ledger, m)

\* C8: a restart with the same config and store after module i's scraper
\* failed invokes i's scraper first: nothing before i is invoked, i is not
\* skipped, and i has been invoked once main is past its block.
C8_RestartRetriesFailedModule ==
    retry # "none" =>
        /\ skipped[retry] = "none"
        /\ \A i \in 1..Len(invoked) : IndexOf(invoked[i].module) >= IndexOf(retry)
        /\ invoked # <<>> => invoked[1].fn = ScraperOf(retry)
        /\ \A m \in Modules :
               (Decided(m) /\ IndexOf(m) > IndexOf(retry)) => retry \in InvokedModules
        /\ \A m \in Modules :
               (Decided(m) /\ IndexOf(m) < IndexOf(retry)) => skipped[m] # "none"

\* C8 witness: the restart skipped a module it had completed before the
\* failure and invoked the failed module again.
C8_Witness ==
    /\ retry # "none"
    /\ retry \in InvokedModules
    /\ \E m \in Modules : IndexOf(m) < IndexOf(retry) /\ skipped[m] = "scraped"

\* C9 as stated: over any sequence of runs, failed and restarted ones
\* included, each module's scraper is executed at most once.
C9_ExecutedAtMostOnce ==
    /\ \A i \in 1..Len(invoked) : invoked[i].module \notin everInvoked
    /\ \A i, j \in 1..Len(invoked) : invoked[i].fn = invoked[j].fn => i = j

\* C9 amended: a module's scraper is never invoked once the module's ledger
\* entry exists, so it runs to a recorded completion at most once, and no run
\* invokes it twice; a scraper that failed or was interrupted before its
\* ledger write is invoked again by a later run.
C9_NeverExecutedOnceMarked ==
    /\ pc \in {"scraping", "insert"} => ~isModuleScraped(ledger, cur)
    /\ \A i, j \in 1..Len(invoked) : invoked[i].fn = invoked[j].fn => i = j
    /\ lastInsert.name # "none" => ~lastInsert.existed

\* C9 witness: a module invoked in an earlier run without reaching its ledger
\* write is invoked again and then marked.
C9_Witness ==
    /\ pc = "delete"
    /\ cur \in everInvoked
    /\ isModuleScraped(ledger, cur)

\* C10: marking a module complete again leaves exactly one ledger record of
\* that name, unchanged, and the ledger never holds two records of one name.
C10_OneRecordPerName ==
    /\ \A m \in Modules : RowsOf(ledger, m) <= 1
    /\ lastInsert.name # "none" => CopiesIn(<<lastInsert.name, TRUE>>, ledger) = 1

\* C10 witness: a name that had a record was marked complete again.
C10_Witness == lastInsert.existed

\* C11: the ledger is monotonic over runs, failures and restarts: a complete
\* entry never becomes absent or false, and no step writes false or removes
\* an entry.
C11_LedgerMonotonic ==
    [][/\ \A m \in Modules :
              CopiesIn(<<m, TRUE>>, ledger) <= CopiesIn(<<m, TRUE>>, ledger')
       /\ \A m \in Modules : CopiesIn(<<m, FALSE>>, ledger') = 0]_vars

\* C11 witness: a restart over a ledger that held entries added an entry and
\* then failed.
C11_Witness ==
    /\ pc = "failed"
    /\ startLedger # EmptyBag
    /\ ledger # startLedger

\* C12: the skip reason follows the sequence disabled, already complete, empty
\* id set, for forums, wikis and news too.
C12_SkipReasonOrder ==
    \A m \in Modules :
        skipped[m] # "none" =>
            skipped[m] = (IF Disabled(m) THEN "disabled"
                          ELSE IF isModuleScraped(startLedger, m) THEN "scraped"
                          ELSE "noids")

\* The fixed order of the scraper calls.
C13_FixedOrder ==
    <<"getSiteData", "getForums", "getGalleries", "getWikis", "getNews",
      "getApplicationResponses", "getApplications", "getComments",
      "getAllTickets", "getUsers", "getFiles">>

C13_Position(fn) == CHOOSE i \in 1..Len(C13_FixedOrder) : C13_FixedOrder[i] = fn

\* C13: the scrapers a run invokes are invoked in the fixed order, and none
\* begins before every earlier module's step has finished: each earlier
\* module was skipped, or was scraped and marked.
C13_OneAtATimeInOrder ==
    /\ \A i, j \in 1..Len(invoked) :
           i < j => C13_Position(invoked[i].fn) < C13_Position(invoked[j].fn)
    /\ \A i \in 1..Len(invoked) : \A m \in Modules :
           C13_Position(ScraperOf(m)) < C13_Position(ScraperOf(invoked[i].module)) =>
               \/ skipped[m] # "none" /\ m \notin InvokedModules
               \/ /\ skipped[m] = "none"
                  /\ m \in InvokedModules
                  /\ isModuleScraped(ledger, m)
                  /\ files \cap RecoveryFiles(m) = {}

\* C13 witness: a run reached its end having skipped a module and invoked
\* scrapers before and after it.
C13_Witness ==
    /\ pc = "done"
    /\ \E m \in Modules : \E i, j \in 1..Len(invoked) :
           /\ skipped[m] # "none"
           /\ C13_Position(invoked[i].fn) < C13_Position(ScraperOf(m))
           /\ C13_Position(ScraperOf(m)) < C13_Position(invoked[j].fn)

\* C14: a recovery file is removed only when its module's ledger entry is
\* complete and the run executed that module without failure; the files of a
\* failed or skipped module stay.
C14_DeletesOnlyAfterMark ==
    [][\A f \in files \ files' : \E m \in Modules :
           /\ f \in RecoveryFiles(m)
           /\ CopiesIn(<<m, TRUE>>, ledger) = 1
           /\ m \in InvokedModules
           /\ skipped[m] = "none"
           /\ failure.module # m]_vars

\* C14 witness: a run deleted the files of a module it had marked, then a
\* later module failed and its files are still there.
C14_Witness ==
    /\ pc = "failed"
    /\ failure.module # "none"
    /\ ScraperFiles(failure.module) # {}
    /\ ScraperFiles(failure.module) \subseteq files
    /\ \E m \in InvokedModules :
           /\ m # failure.module
           /\ RecoveryFiles(m) # {}
           /\ isModuleScraped(ledger, m)
           /\ files \cap RecoveryFiles(m) = {}

\* The calls main makes before the module blocks.
C15_EarlyCalls == {"authenticateAPI", "authenticateSite", "getSiteID"}

\* C15: a failure of either login or of the site-ID lookup aborts the run
\* before any module step: nothing invoked or skipped, ledger and recovery
\* files as they were.
C15_EarlyFailureAborts ==
    failure.call \in C15_EarlyCalls =>
        /\ pc = "failed"
        /\ cur = "none"
        /\ invoked = <<>>
        /\ skipped = NoSkips
        /\ ledger = startLedger
        /\ files = startFiles
        /\ ~signalled

\* C15 witness: the site-ID lookup failed in a run over a store that held
\* ledger entries and recovery files.
C15_Witness ==
    /\ failure.call = "getSiteID"
    /\ startLedger # EmptyBag
    /\ startFiles # {}

\* C16: a session id (site auth) the config supplies is used as is, with no
\* authenticateAPI (authenticateSite) call; the other value is still obtained
\* by its own call.
C16_SuppliedSessionIsUsed ==
    /\ config.sessionID =>
           sessionID \in {"none", "config"} /\ failure.call # "authenticateAPI"
    /\ config.siteAuth =>
           siteAuth \in {"none", "config"} /\ failure.call # "authenticateSite"
    /\ (~config.sessionID /\ sessionID # "none") => sessionID = "api"
    /\ (~config.siteAuth /\ siteAuth # "none") => siteAuth = "site"

\* C16 witness: the config supplied the session id only; it was taken and
\* the site login was made.
C16_Witness ==
    /\ config.sessionID
    /\ ~config.siteAuth
    /\ sessionID = "config"
    /\ siteAuth = "site"

\* C17: a run whose collaborators all return reaches the end of main and
\* sends the signal, whatever was skipped; a run in which a collaborator
\* fails never sends it.
C17_SuccessfulRunSignals ==
    /\ (pc \in Running) ~> (signalled \/ pc \in {"failed", "interrupted"})
    /\ [](signalled => pc = "done" /\ failure.call = "none")
    /\ [](pc = "done" => signalled)
    /\ [](pc = "failed" => failure.call # "none")

\* C17 witness: a run that skipped one module as disabled, one as already
\* scraped and one for want of ids sent the signal.
C17_Witness ==
    /\ signalled
    /\ \E m \in Modules : skipped[m] = "noids"
    /\ \E m \in Modules : skipped[m] = "scraped"
    /\ \E m \in Modules : skipped[m] = "disabled"

\* C18: the applications entry is written only after getApplicationResponses
\* and getApplications both returned in the run; when getApplications fails
\* there is no entry and the block's recovery files stay, and a restart calls
\* getApplicationResponses again before getApplications.
C18_ApplicationsMarkedAfterBoth ==
    /\ \A i \in 1..Len(invoked) :
           invoked[i].fn = "getApplications" =>
               i > 1 /\ invoked[i - 1].fn = "getApplicationResponses"
    /\ RowsOf(ledger, "applications") > RowsOf(startLedger, "applications") =>
           /\ \E i \in 1..Len(invoked) : invoked[i].fn = "getApplications"
           /\ failure.module # "applications"
    /\ failure.call = "getApplications" =>
           /\ ~isModuleScraped(ledger, "applications")
           /\ RecoveryFiles("applications") \subseteq files
    /\ (retry = "applications" /\ "applications" \in InvokedModules) =>
           invoked[1].fn = "getApplicationResponses"

\* C18 witness: in a restart after the applications block failed, both
\* scrapers were called again and getApplications failed.
C18_Witness ==
    /\ retry = "applications"
    /\ failure.call = "getApplications"
    /\ Len(invoked) = 2

\* C19: from an empty ledger, a module has an entry only if its scraper was
\* invoked and returned; a run adds the entry of a module exactly when it
\* invoked the module's scraper and the call did not fail, once main has
\* left the module's block.
C19_MarkedOnlyAfterSuccess ==
    /\ LedgerNames(ledger) \subseteq everInvoked \cup InvokedModules
    /\ \A m \in Modules :
           RowsOf(ledger, m) > RowsOf(startLedger, m) =>
               m \in InvokedModules /\ failure.module # m
    /\ \A m \in InvokedModules :
           cur # m => RowsOf(ledger, m) > RowsOf(startLedger, m)
    /\ \A m \in Modules :
           skipped[m] # "none" => RowsOf(ledger, m) = RowsOf(startLedger, m)

\* C19 witness: a restart marked one module and failed in a later one.
C19_Witness ==
    /\ pc = "failed"
    /\ failure.module # "none"
    /\ startLedger # EmptyBag
    /\ \E m \in InvokedModules : RowsOf(ledger, m) > RowsOf(startLedger, m)

\* C20: recovery files are deleted only in the run that executed their
\* module's scraper: the files of a module that was complete when a run
\* started are as they were, so files left by an interruption between the
\* ledger write and the deletion remain in every later run.
C20_OrphanFilesRemain ==
    /\ \A m \in Modules :
           isModuleScraped(startLedger, m) =>
               files \cap RecoveryFiles(m) = startFiles \cap RecoveryFiles(m)
    /\ \A f \in startFiles \ files : \E m \in InvokedModules : f \in RecoveryFiles(m)

\* C20 witness: a later run skipped a complete module whose recovery files
\* had been left behind, and ended with the files still there.
C20_Witness ==
    /\ pc = "done"
    /\ \E m \in Modules :
           /\ isModuleScraped(startLedger, m)
           /\ skipped[m] = "scraped"
           /\ RecoveryFiles(m) # {}
           /\ RecoveryFiles(m) \subseteq files

====
